---- MODULE Spec2Model ----
(***************************************************************************)
(* Model of the generic backtracking search engine of src/src/graph.rs:    *)
(* the sequential engine dfs and the multi-threaded engine dfs_parallel    *)
(* (relay thread _queue_handler, _dispatcher, cpus worker threads and the  *)
(* calling thread), driven by the callers in src/src/main.rs and           *)
(* src/src/solver.rs.                                                      *)
(***************************************************************************)
EXTENDS Integers, Sequences, FiniteSets, TLC

\* ---------------------------------------------------------------- bounds
\* number of worker threads (num_cpus::get())
Cpus == 2
\* node identities of the graphs searched
MaxNode == 3
\* longest neighbour list of a node
MaxDeg == 2
\* the usize counter of dfs wraps here (at 2^64 in the build), so that a
\* search that never ends has finitely many states; every search that ends
\* stays below it
UsizeMod == 12
\* results kept of the completion channel (only its head is ever received)
ResCap == 2

\* ------------------------------------------------------- the Graph trait
Finish == "Finish"
Continue == "Continue"
Prune == "Prune"
GraphControl == {Finish, Continue, Prune}

Nodes == 1..MaxNode
Raw == "raw"
Done == "done"
\* A Node value: an identity and the form it is in.  neighbours() produces
\* nodes in the form they are discovered in (Raw); check_goal(&mut node) may
\* rewrite the node it is given (Done), as compute_guesses does for a board.
NodeVals == Nodes \X {Raw, Done}

\* neighbour lists: sequences of distinct identities, at most MaxDeg long
RECURSIVE SeqsUpTo(_)
SeqsUpTo(k) ==
    IF k = 0 THEN {<<>>}
    ELSE LET S == SeqsUpTo(k - 1)
         IN  S \cup {Append(s, n) : s \in {t \in S : Len(t) = k - 1}, n \in Nodes}
NbrSeqs == {s \in SeqsUpTo(MaxDeg) : \A i, j \in 1..Len(s) : i # j => s[i] # s[j]}

\* what a Graph implementation fixes for one node identity
NodeKinds ==
    {[ctrl |-> c, nbrs |-> s] : c \in GraphControl, s \in NbrSeqs}
PlainKinds == {k \in NodeKinds : k.ctrl # Continue => k.nbrs = <<>>}

start == <<1, Raw>>

check_goal(g, node) ==
    [node |-> IF g.mutates THEN <<node[1], Done>> ELSE node,
     ctrl |-> g.kind[node[1]].ctrl]

neighbours(g, node) ==
    [i \in 1..Len(g.kind[node[1]].nbrs) |-> <<g.kind[node[1]].nbrs[i], Raw>>]

\* the identities a search can go on to from n: neighbours are only asked
\* of a node classified Continue
Successors(g, n) ==
    IF g.kind[n].ctrl = Continue
    THEN {g.kind[n].nbrs[i] : i \in 1..Len(g.kind[n].nbrs)}
    ELSE {}

RECURSIVE Closure(_, _)
Closure(g, S) ==
    LET T == S \cup UNION {Successors(g, n) : n \in S}
    IN  IF T = S THEN S ELSE Closure(g, T)

Reachable(g) == Closure(g, {start[1]})
OnCycle(g, n) == n \in Closure(g, Successors(g, n))

\* number of neighbour expansions from the start that first reach n
RECURSIVE Dist(_, _, _, _)
Dist(g, S, n, d) ==
    IF n \in S \/ d > MaxNode THEN d
    ELSE Dist(g, S \cup UNION {Successors(g, m) : m \in S}, n, d + 1)
Depth(g, n) == Dist(g, {start[1]}, n, 0)

\* exactly one node reachable from the start yields Finish
UniqueFinish(g) ==
    Cardinality({n \in Reachable(g) : g.kind[n].ctrl = Finish}) = 1

\* no node reachable from the start yields Finish
NoFinish(g) == \A n \in Reachable(g) : g.kind[n].ctrl # Finish
\* check_goal leaves every reachable node that lies on a cycle as it found it
CyclesKept(g) == g.mutates => \A n \in Reachable(g) : ~OnCycle(g, n)

\* every Graph over Nodes: per node its classification and neighbour list,
\* and whether check_goal rewrites the node it checks.  A node no search from
\* the start can meet is left a dead end, so that no graph is listed twice;
\* a rewritten node on a cycle has a single neighbour, so that the stack of a
\* search that never ends stays bounded.
AllGraphs ==
    {g \in [kind : [Nodes -> PlainKinds], mutates : BOOLEAN] :
        /\ \A n \in Nodes \ Reachable(g) : g.kind[n].ctrl = Prune
        /\ g.mutates =>
              \A n \in Reachable(g) : OnCycle(g, n) => Len(g.kind[n].nbrs) = 1}

\* a usize counter after += 1
Incremented(n) == (n + 1) % UsizeMod

\* ------------------------------------------------------------- results
NoResult == [type |-> "none"]
Ok(node, i) == [type |-> "Ok", node |-> node, count |-> i]
Err(i) == [type |-> "Err", count |-> i]

\* Unvisited as it would be with the test on the visited set inverted
Unvisited_inverted(ns, vis) ==
    LET Seen(n) == n \in vis
    IN  SelectSeq(ns, Seen)

\* Unvisited as it would be if the visited set were not consulted
Unvisited_all(ns, vis) == ns

\* the neighbours the engines keep: those not in the visited set
RECURSIVE Unvisited(_, _)
Unvisited(ns, vis) ==
    IF ns = <<>> THEN <<>>
    ELSE IF Head(ns) \in vis THEN Unvisited(Tail(ns), vis)
         ELSE <<Head(ns)>> \o Unvisited(Tail(ns), vis)

\* the graphs the multi-threaded engine is run on
Kind(c, s) == [ctrl |-> c, nbrs |-> s]
Graph3(k1, k2, k3, m) ==
    [kind |-> [n \in Nodes |-> IF n = 1 THEN k1 ELSE IF n = 2 THEN k2
                               ELSE IF n = 3 THEN k3 ELSE Kind(Prune, <<>>)],
     mutates |-> m]
DeadEnd == Kind(Prune, <<>>)
Goal == Kind(Finish, <<>>)
ParGraphs ==
    { \* the start node is the solution (one empty cell, one candidate)
      Graph3(Goal, DeadEnd, DeadEnd, TRUE),
      \* one guess leads to the only solution
      Graph3(Kind(Continue, <<2, 3>>), DeadEnd, Goal, TRUE),
      \* two solutions
      Graph3(Kind(Continue, <<2, 3>>), Goal, Goal, FALSE),
      \* no solution: a dead end met through two parents
      Graph3(Kind(Continue, <<2, 3>>), DeadEnd, Kind(Continue, <<2>>), FALSE),
      \* no solution: a cycle
      Graph3(Kind(Continue, <<2>>), Kind(Continue, <<1>>), DeadEnd, FALSE) }

\* ------------------------------------------------------------- sudoku
N == 9
Idx == 0..(N - 1)

\* enum Item
Number(x) == [tag |-> "Number", n |-> x, gs |-> <<>>]
Empty == [tag |-> "Empty", n |-> 0, gs |-> <<>>]
Guesses(v) == [tag |-> "Guesses", n |-> 0, gs |-> v]
Error == [tag |-> "Error", n |-> 0, gs |-> <<>>]
IsNumber(x) == x.tag = "Number"

\* enum SudokuState
Unknown == [tag |-> "Unknown", idx |-> <<0, 0>>]
HaveGuesses(idx) == [tag |-> "HaveGuesses", idx |-> idx]
Invalid == [tag |-> "Invalid", idx |-> <<0, 0>>]
Solved == [tag |-> "Solved", idx |-> <<0, 0>>]

\* struct Sudoku
Sudoku(rows, state) == [rows |-> rows, state |-> state]
EmptyRows == [i \in Idx |-> [j \in Idx |-> Empty]]
get(self, i, j) == self.rows[i][j]
set(self, i, j, number) ==
    [self EXCEPT !.rows = [self.rows EXCEPT ![i] = [@ EXCEPT ![j] = Number(number)]]]

\* filter_map(get_number) over a sequence of items
Numbers(items) ==
    LET nums == SelectSeq(items, IsNumber)
    IN  [k \in 1..Len(nums) |-> nums[k].n]

get_row_values(self, i) == Numbers([k \in 1..N |-> get(self, i, k - 1)])
get_col_values(self, j) == Numbers([k \in 1..N |-> get(self, k - 1, j)])
get_square_values(self, i, j) ==
    LET i0 == (i \div 3) * 3
        j0 == (j \div 3) * 3
    IN  Numbers([k \in 1..9 |-> get(self, i0 + ((k - 1) \div 3), j0 + ((k - 1) % 3))])

get_guesses(self, i, j) ==
    LET r == get_row_values(self, i)
        c == get_col_values(self, j)
        q == get_square_values(self, i, j)
        others == {r[k] : k \in DOMAIN r} \cup {c[k] : k \in DOMAIN c}
                  \cup {q[k] : k \in DOMAIN q}
        Free(x) == x \notin others
    IN  SelectSeq([x \in 1..9 |-> x], Free)

\* the largest number of times one value occurs in a group
MaxCount(group) ==
    IF group = <<>> THEN 0
    ELSE LET cnt(k) == Cardinality({p \in DOMAIN group : group[p] = group[k]})
         IN  CHOOSE m \in {cnt(k) : k \in DOMAIN group} :
                 \A k \in DOMAIN group : cnt(k) <= m

\* the squares is_valid looks at: get_square_values(i, j) for (i, j) in
\* (0..2) x (0..2)
ValidSquares == (0..1) \X (0..1)

is_valid(self) ==
    /\ \A i \in Idx : MaxCount(get_row_values(self, i)) <= 1
    /\ \A j \in Idx : MaxCount(get_col_values(self, j)) <= 1
    /\ \A ij \in ValidSquares : MaxCount(get_square_values(self, ij[1], ij[2])) <= 1

\* char::to_digit(10); a text is a sequence of lines, a line a sequence of
\* one-character strings
DigitChars == <<"0", "1", "2", "3", "4", "5", "6", "7", "8", "9">>
IsDigit(c) == \E k \in DOMAIN DigitChars : DigitChars[k] = c
to_digit(c) == (CHOOSE k \in DOMAIN DigitChars : DigitChars[k] = c) - 1

from_text(text) ==
    IF \/ Len(text) > N
       \/ \E i \in DOMAIN text : Len(text[i]) > N
       \/ \E i \in DOMAIN text : \E j \in DOMAIN text[i] :
              text[i][j] # " " /\ ~IsDigit(text[i][j])
    THEN [type |-> "panic", board |-> Sudoku(EmptyRows, Unknown)]
    ELSE LET rows == [i \in Idx |-> [j \in Idx |->
                         IF i + 1 <= Len(text) /\ j + 1 <= Len(text[i + 1])
                            /\ text[i + 1][j + 1] # " "
                         THEN Number(to_digit(text[i + 1][j + 1]))
                         ELSE Empty]]
             board == Sudoku(rows, Unknown)
         IN  IF is_valid(board) THEN [type |-> "Ok", board |-> board]
             ELSE [type |-> "Err", board |-> board]

\* the second pass of compute_guesses over guess_idxs, from position k on
RECURSIVE fill_guesses(_, _, _, _, _)
fill_guesses(self, idxs, k, invalid, kept) ==
    IF k > Len(idxs) THEN [self |-> self, invalid |-> invalid, kept |-> kept]
    ELSE LET i == idxs[k][1]
             j == idxs[k][2]
             guesses == get_guesses(self, i, j)
             put(item) == [self EXCEPT !.rows =
                              [self.rows EXCEPT ![i] = [@ EXCEPT ![j] = item]]]
         IN  IF Len(guesses) = 0
             THEN fill_guesses(put(Error), idxs, k + 1, TRUE, kept)
             ELSE IF Len(guesses) = 1
             THEN fill_guesses(put(Number(guesses[1])), idxs, k + 1, invalid, kept)
             ELSE fill_guesses(put(Guesses(guesses)), idxs, k + 1, invalid,
                               Append(kept, idxs[k]))

compute_guesses(self) ==
    LET NotNumber(ij) == ~IsNumber(get(self, ij[1], ij[2]))
        guess_idxs == SelectSeq([k \in 1..(N * N) |->
                                    <<(k - 1) \div N, (k - 1) % N>>], NotNumber)
        r == fill_guesses(self, guess_idxs, 1, FALSE, <<>>)
    IN  [r.self EXCEPT !.state =
            IF r.invalid THEN Invalid
            ELSE IF r.kept # <<>> THEN HaveGuesses(r.kept[1])
            ELSE Solved]

\* impl Graph for SudokuSolver
SudokuSolver_check_goal(node) ==
    LET n == compute_guesses(node)
    IN  [node |-> n,
         ctrl |-> IF n.state = Invalid THEN Prune
                  ELSE IF n.state = Solved THEN Finish
                  ELSE Continue]

\* the arm of neighbours that is unreachable!()
neighbours_unreachable(node) == node.state.tag \in {"Unknown", "Solved"}

SudokuSolver_neighbours(node) ==
    IF node.state.tag = "HaveGuesses"
    THEN LET i == node.state.idx[1]
             j == node.state.idx[2]
             gs == get_guesses(node, i, j)
         IN  [k \in 1..Len(gs) |-> set(node, i, j, gs[k])]
    ELSE <<>>

\* the puzzle of the tests of solver.rs
TestPuzzle ==
    << <<" ", "1">>,
       <<"6", "9", " ", " ", "2", " ", " ", "5", "7">>,
       <<" ", " ", " ", " ", "6", "9", "2">>,
       <<" ", " ", "9", " ", " ", " ", "4">>,
       <<"4", "7", " ", " ", " ", " ", " ", "2">>,
       <<"5", "8", "1", " ", "9", " ", " ", " ", "3">>,
       <<" ", " ", "5", " ", " ", "8", "6">>,
       <<" ", "4", " ", "2", " ", " ", "8", " ", "1">>,
       <<" ", " ", " ", "6", " ", " ", " ", "4">> >>

\* the board solve_sudoku returns for the test puzzle
TestSolution ==
    << <<"8", "1", "2", "7", "5", "4", "3", "9", "6">>,
       <<"6", "9", "4", "8", "2", "3", "1", "5", "7">>,
       <<"3", "5", "7", "1", "6", "9", "2", "8", "4">>,
       <<"2", "6", "9", "3", "8", "7", "4", "1", "5">>,
       <<"4", "7", "3", "5", "1", "6", "9", "2", "8">>,
       <<"5", "8", "1", "4", "9", "2", "7", "6", "3">>,
       <<"1", "3", "5", "9", "4", "8", "6", "7", "2">>,
       <<"9", "4", "6", "2", "7", "5", "8", "3", "1">>,
       <<"7", "2", "8", "6", "3", "1", "5", "4", "9">> >>

\* a full board with its fourth and seventh lines exchanged
Exchanged(text) ==
    [i \in 1..N |-> IF i = 4 THEN text[7] ELSE IF i = 7 THEN text[4] ELSE text[i]]

\* the boards given to from_text: the test puzzle, its solution, and the
\* solution with two lines exchanged, each with up to MaxEdits cells of
\* EditCells overwritten by a character of EditChars
MaxEdits == 2
EditCells == {<<0, 0>>, <<0, 1>>, <<2, 1>>, <<3, 3>>, <<3, 4>>, <<4, 4>>}
EditChars == {" ", "3"}
Edits == UNION {[cs -> EditChars] :
                   cs \in {c \in SUBSET EditCells : Cardinality(c) <= MaxEdits}}
Edited(text, e) ==
    [i \in 1..N |-> [j \in 1..N |->
        IF <<i - 1, j - 1>> \in DOMAIN e THEN e[<<i - 1, j - 1>>]
        ELSE IF j <= Len(text[i]) THEN text[i][j] ELSE " "]]
Texts == {Edited(base, e) :
             base \in {TestPuzzle, TestSolution, Exchanged(TestSolution)},
             e \in Edits}

VARIABLES
    graph,          \* the Graph implementation searched
    mode,           \* "seq" | "par" (main.rs), "test" (solver.rs test)
    main_pc,        \* position of the calling thread
    \* dfs
    dfs_queue, dfs_visited, dfs_iterations, dfs_result,
    dfs_checked,    \* history: identities goal-checked by dfs, in order
    \* dfs_parallel
    queue,          \* Arc<Mutex<Vec<Node>>>, top of the stack last
    visited,        \* Arc<Mutex<HashSet<Node>>>
    iterations,     \* AtomicUsize
    free_tasks,     \* AtomicUsize
    started,        \* the bool of started_pair
    chan_queue,     \* channel s_queue -> r_queue
    chan_tasks,     \* channel s_tasks -> r_tasks
    s_sent,         \* channel s -> r: the first ResCap results sent on it
    qh_pc,          \* _queue_handler thread
    disp_pc,        \* _dispatcher thread
    w_pc, w_node, w_nbrs,   \* worker threads: position, node, neighbours left
    par_result,     \* what r.recv() handed to the caller
    checks,         \* history: check_goal calls begun by workers
    held,           \* history: <<thread, mutexes it held at the same time>>
    goal_log,       \* history: <<node as check_goal left it, its answer>>
    sk_pc,          \* main on a sudoku: where the board is
    sk_text,        \* the text given to Sudoku::from_text
    sk_node         \* the Sudoku being handled

dfs_vars == <<dfs_queue, dfs_visited, dfs_iterations, dfs_result, dfs_checked>>
par_vars == <<queue, visited, iterations, free_tasks, started, chan_queue,
              chan_tasks, s_sent, qh_pc, disp_pc, w_pc, w_node, w_nbrs,
              par_result, checks, held>>
sk_vars == <<sk_pc, sk_text, sk_node>>
eng_vars == <<graph, mode, main_pc, dfs_vars, par_vars, goal_log>>
vars == <<eng_vars, sk_vars>>

Workers == 1..Cpus

\* value free_tasks is created with: its declaration is not in graph.rs
free_tasks_init == Cpus

AfterDfs(res) ==
    IF mode = "seq" THEN "done"
    ELSE IF res.type = "Ok" THEN "send" ELSE "panic"

InitDfsVars ==
    /\ dfs_queue = <<start>>
    /\ dfs_visited = {}
    /\ dfs_iterations = 0
    /\ dfs_result = NoResult
    /\ dfs_checked = <<>>

InitParVars ==
    /\ queue = <<start>>
    /\ visited = {}
    /\ iterations = 0
    /\ free_tasks = free_tasks_init
    /\ started = FALSE
    /\ chan_queue = <<>>
    /\ chan_tasks = <<>>
    /\ s_sent = <<>>
    /\ qh_pc = "run"
    /\ disp_pc = "wait"
    /\ w_pc = [i \in Workers |-> "recv"]
    /\ w_node = [i \in Workers |-> start]
    /\ w_nbrs = [i \in Workers |-> <<>>]
    /\ par_result = NoResult
    /\ checks = 0
    /\ held = {}

\* no sudoku is being handled
InitSkVars ==
    /\ sk_pc = "off"
    /\ sk_text = <<>>
    /\ sk_node = <<>>

\* ------------------------------------------------------------------ dfs
\* DfsIteration as it would be if the node were taken from the bottom of
\* the stack
DfsIteration_fifo ==
    /\ main_pc = "dfs"
    /\ dfs_queue # <<>>
    /\ LET node == Head(dfs_queue)
           rest == Tail(dfs_queue)
           i    == Incremented(dfs_iterations)
           g    == check_goal(graph, node)
       IN  /\ dfs_iterations' = i
           /\ dfs_checked' = IF Len(dfs_checked) < UsizeMod
                             THEN Append(dfs_checked, node[1]) ELSE dfs_checked
           /\ goal_log' = goal_log \cup {<<g.node, g.ctrl>>}
           /\ IF g.ctrl = Finish
              THEN /\ dfs_result' = Ok(g.node, i)
                   /\ main_pc' = AfterDfs(Ok(g.node, i))
                   /\ dfs_queue' = rest
                   /\ UNCHANGED dfs_visited
              ELSE /\ dfs_queue' =
                        IF g.ctrl = Continue
                        THEN rest \o Unvisited(neighbours(graph, g.node), dfs_visited)
                        ELSE rest
                   /\ dfs_visited' = dfs_visited \cup {g.node}
                   /\ UNCHANGED <<dfs_result, main_pc>>
    /\ UNCHANGED <<sk_vars, graph, mode, par_vars>>

\* one pass of the while-let loop of dfs
DfsIteration ==
    /\ main_pc = "dfs"
    /\ dfs_queue # <<>>
    /\ LET node == dfs_queue[Len(dfs_queue)]
           rest == SubSeq(dfs_queue, 1, Len(dfs_queue) - 1)
           i    == Incremented(dfs_iterations)
           g    == check_goal(graph, node)
       IN  /\ dfs_iterations' = i
           /\ dfs_checked' = IF Len(dfs_checked) < UsizeMod
                             THEN Append(dfs_checked, node[1]) ELSE dfs_checked
           /\ goal_log' = goal_log \cup {<<g.node, g.ctrl>>}
           /\ IF g.ctrl = Finish
              THEN /\ dfs_result' = Ok(g.node, i)
                   /\ main_pc' = AfterDfs(Ok(g.node, i))
                   /\ dfs_queue' = rest
                   /\ UNCHANGED dfs_visited
              ELSE /\ dfs_queue' =
                        IF g.ctrl = Continue
                        THEN rest \o Unvisited(neighbours(graph, g.node), dfs_visited)
                        ELSE rest
                   /\ dfs_visited' = dfs_visited \cup {g.node}
                   /\ UNCHANGED <<dfs_result, main_pc>>
    /\ UNCHANGED <<sk_vars, graph, mode, par_vars>>

\* the loop ends with an empty stack
DfsExhausted ==
    /\ main_pc = "dfs"
    /\ dfs_queue = <<>>
    /\ dfs_result' = Err(dfs_iterations)
    /\ main_pc' = AfterDfs(Err(dfs_iterations))
    /\ UNCHANGED <<sk_vars, graph, mode, dfs_queue, dfs_visited, dfs_iterations,
                   dfs_checked, par_vars, goal_log>>

\* --------------------------------------------------------- dfs_parallel
Returned == main_pc = "returned"
WorkerAlive(i) == w_pc[i] \notin {"done", "panic"}
\* a channel is disconnected once every handle of the other side is dropped:
\* the caller's handles at its return, a thread's clones when it ends
QueueSendersAlive == ~Returned \/ \E i \in Workers : WorkerAlive(i)
TasksSendersAlive == ~Returned \/ disp_pc # "panic"
TasksReceiversAlive == ~Returned \/ \E i \in Workers : WorkerAlive(i)

\* s.send(result): only the head of the channel is ever received
Sent(res) == IF Len(s_sent) < ResCap THEN Append(s_sent, res) ELSE s_sent

\* s_queue.send(start)
CallerSend ==
    /\ main_pc = "send"
    /\ chan_queue' = Append(chan_queue, start)
    /\ main_pc' = "recv"
    /\ UNCHANGED <<sk_vars, held, graph, mode, dfs_vars, goal_log, queue, visited, iterations,
                   free_tasks, started, chan_tasks, s_sent, qh_pc, disp_pc,
                   w_pc, w_node, w_nbrs, par_result, checks>>

\* r.recv().unwrap(), and the return of dfs_parallel
CallerRecv ==
    /\ main_pc = "recv"
    /\ s_sent # <<>>
    /\ par_result' = s_sent[1]
    /\ main_pc' = "returned"
    /\ UNCHANGED <<sk_vars, held, graph, mode, dfs_vars, goal_log, queue, visited, iterations,
                   free_tasks, started, chan_queue, chan_tasks, s_sent, qh_pc,
                   disp_pc, w_pc, w_node, w_nbrs, checks>>

\* _queue_handler: one pass of its loop (receive, push, notify once)
QueueHandler ==
    /\ qh_pc = "run"
    /\ chan_queue # <<>>
    /\ queue' = Append(queue, Head(chan_queue))
    /\ chan_queue' = Tail(chan_queue)
    /\ started' = TRUE
    /\ held' = held \cup {<<"queue_handler", {"queue"}>>}
                   \cup (IF started THEN {} ELSE {<<"queue_handler", {"started"}>>})
    /\ UNCHANGED <<sk_vars, graph, mode, main_pc, dfs_vars, goal_log, visited, iterations,
                   free_tasks, chan_tasks, s_sent, qh_pc, disp_pc, w_pc,
                   w_node, w_nbrs, par_result, checks>>

\* _queue_handler: r_queue.recv() fails, the loop ends
QueueHandlerExit ==
    /\ qh_pc = "run"
    /\ chan_queue = <<>>
    /\ ~QueueSendersAlive
    /\ qh_pc' = "done"
    /\ UNCHANGED <<sk_vars, held, graph, mode, main_pc, dfs_vars, goal_log, queue, visited,
                   iterations, free_tasks, started, chan_queue, chan_tasks,
                   s_sent, disp_pc, w_pc, w_node, w_nbrs, par_result, checks>>

disp_unchanged == <<sk_vars, graph, mode, main_pc, dfs_vars, goal_log, visited,
                    iterations, free_tasks, started, chan_queue, qh_pc, w_pc,
                    w_node, w_nbrs, par_result, checks>>

\* _dispatcher: the wait on started_pair
DispatcherStart ==
    /\ disp_pc = "wait"
    /\ started
    /\ disp_pc' = "loop"
    /\ held' = held \cup {<<"dispatcher", {"started"}>>}
    /\ UNCHANGED <<disp_unchanged, queue, chan_tasks, s_sent>>

\* _dispatcher: if free_tasks.load() > 0 (otherwise the loop tests it again)
DispatcherLoop ==
    /\ disp_pc = "loop"
    /\ free_tasks > 0
    /\ disp_pc' = "pop"
    /\ UNCHANGED <<disp_unchanged, queue, chan_tasks, s_sent, held>>

\* _dispatcher: queue.lock().unwrap().pop() and s_tasks.send(msg).unwrap()
DispatcherPop ==
    /\ disp_pc = "pop"
    /\ IF queue # <<>>
       THEN /\ queue' = SubSeq(queue, 1, Len(queue) - 1)
            /\ IF TasksReceiversAlive
               THEN /\ chan_tasks' = Append(chan_tasks, queue[Len(queue)])
                    /\ disp_pc' = "loop"
               ELSE /\ disp_pc' = "panic"
                    /\ UNCHANGED chan_tasks
       ELSE /\ disp_pc' = "check"
            /\ UNCHANGED <<queue, chan_tasks>>
    /\ held' = held \cup {<<"dispatcher", {"started", "queue"}>>}
    /\ UNCHANGED <<disp_unchanged, s_sent>>

\* _dispatcher: if free_tasks.load() == cpus
DispatcherCheck ==
    /\ disp_pc = "check"
    /\ disp_pc' = IF free_tasks = Cpus THEN "report" ELSE "loop"
    /\ UNCHANGED <<disp_unchanged, queue, chan_tasks, s_sent, held>>

\* _dispatcher: the debug! lines (one locks the queue when logging is on),
\* iterations.load() and s.send(Err(..)).unwrap()
DispatcherReport ==
    /\ disp_pc = "report"
    /\ IF Returned
       THEN disp_pc' = "panic" /\ UNCHANGED s_sent
       ELSE disp_pc' = "loop" /\ s_sent' = Sent(Err(iterations))
    /\ held' = held \cup {<<"dispatcher", {"started", "queue"}>>}
    /\ UNCHANGED <<disp_unchanged, queue, chan_tasks>>

w_unchanged == <<sk_vars, graph, mode, main_pc, dfs_vars, queue, started, qh_pc,
                 disp_pc, par_result>>

\* WorkerRecv as it would be without iterations.fetch_add(1)
WorkerRecv_uncounted(i) ==
    /\ w_pc[i] = "recv"
    /\ chan_tasks # <<>>
    /\ w_node' = [w_node EXCEPT ![i] = Head(chan_tasks)]
    /\ chan_tasks' = Tail(chan_tasks)
    /\ free_tasks' = free_tasks + 1
    /\ w_pc' = [w_pc EXCEPT ![i] = "check"]
    /\ UNCHANGED <<w_unchanged, held, goal_log, visited, chan_queue, s_sent, w_nbrs,
                   checks, iterations>>

\* worker: r_tasks.recv(), iterations.fetch_add(1), free_tasks.fetch_add(1)
WorkerRecv(i) ==
    /\ w_pc[i] = "recv"
    /\ chan_tasks # <<>>
    /\ w_node' = [w_node EXCEPT ![i] = Head(chan_tasks)]
    /\ chan_tasks' = Tail(chan_tasks)
    /\ iterations' = iterations + 1
    /\ free_tasks' = free_tasks + 1
    /\ w_pc' = [w_pc EXCEPT ![i] = "check"]
    /\ UNCHANGED <<w_unchanged, held, goal_log, visited, chan_queue, s_sent, w_nbrs,
                   checks>>

\* worker: r_tasks.recv() fails, the loop ends
WorkerDisconnected(i) ==
    /\ w_pc[i] = "recv"
    /\ chan_tasks = <<>>
    /\ ~TasksSendersAlive
    /\ w_pc' = [w_pc EXCEPT ![i] = "exit"]
    /\ UNCHANGED <<w_unchanged, held, goal_log, visited, iterations, free_tasks,
                   chan_queue, chan_tasks, s_sent, w_node, w_nbrs, checks>>

\* worker_arm as it would be with the Finish and Prune arms exchanged
worker_arm_swapped(ctrl, ns) ==
    IF ctrl = Prune THEN "finish"
    ELSE IF ctrl = Continue /\ ns # <<>> THEN "nbr"
    ELSE "insert"

\* worker: the arm of the match taken for an answer of check_goal (a
\* Continue node without neighbours goes on to the insert, as a Prune does)
worker_arm(ctrl, ns) ==
    IF ctrl = Finish THEN "finish"
    ELSE IF ctrl = Continue /\ ns # <<>> THEN "nbr"
    ELSE "insert"

\* worker: match graph.check_goal(&mut node)
WorkerCheckGoal(i) ==
    /\ w_pc[i] = "check"
    /\ LET g == check_goal(graph, w_node[i])
           ns == neighbours(graph, g.node)
       IN  /\ w_node' = [w_node EXCEPT ![i] = g.node]
           /\ goal_log' = goal_log \cup {<<g.node, g.ctrl>>}
           /\ w_nbrs' = [w_nbrs EXCEPT ![i] = IF g.ctrl = Continue THEN ns ELSE <<>>]
           /\ w_pc' = [w_pc EXCEPT ![i] = worker_arm(g.ctrl, ns)]
    /\ checks' = checks + 1
    /\ UNCHANGED <<w_unchanged, held, visited, iterations, free_tasks, chan_queue,
                   chan_tasks, s_sent>>

\* worker: iterations.load(), s.send(Ok(..)).unwrap(), break
WorkerFinish(i) ==
    /\ w_pc[i] = "finish"
    /\ IF Returned
       THEN w_pc' = [w_pc EXCEPT ![i] = "panic"] /\ UNCHANGED s_sent
       ELSE /\ w_pc' = [w_pc EXCEPT ![i] = "exit"]
            /\ s_sent' = Sent(Ok(w_node[i], iterations))
    /\ UNCHANGED <<w_unchanged, held, goal_log, visited, iterations, free_tasks,
                   chan_queue, chan_tasks, w_node, w_nbrs, checks>>

\* WorkerNeighbour as it would be if the worker looked at the frontier while
\* the guard of visited is still alive
WorkerNeighbour_nested(i) ==
    /\ w_pc[i] = "nbr"
    /\ chan_queue' = IF Head(w_nbrs[i]) \in visited THEN chan_queue
                     ELSE Append(chan_queue, Head(w_nbrs[i]))
    /\ w_nbrs' = [w_nbrs EXCEPT ![i] = Tail(w_nbrs[i])]
    /\ w_pc' = [w_pc EXCEPT ![i] = IF Tail(w_nbrs[i]) = <<>> THEN "insert" ELSE "nbr"]
    /\ held' = held \cup {<<"worker", {"visited", "queue"}>>}
    /\ UNCHANGED <<w_unchanged, goal_log, visited, iterations, free_tasks,
                   chan_tasks, s_sent, w_node, checks>>

\* worker: one pass of the for loop over the neighbours (r_queue is open
\* as long as a worker lives, so s_queue.send cannot fail)
WorkerNeighbour(i) ==
    /\ w_pc[i] = "nbr"
    /\ chan_queue' = IF Head(w_nbrs[i]) \in visited THEN chan_queue
                     ELSE Append(chan_queue, Head(w_nbrs[i]))
    /\ w_nbrs' = [w_nbrs EXCEPT ![i] = Tail(w_nbrs[i])]
    /\ w_pc' = [w_pc EXCEPT ![i] = IF Tail(w_nbrs[i]) = <<>> THEN "insert" ELSE "nbr"]
    /\ held' = held \cup {<<"worker", {"visited"}>>}
    /\ UNCHANGED <<w_unchanged, goal_log, visited, iterations, free_tasks,
                   chan_tasks, s_sent, w_node, checks>>

\* WorkerInsert as it would be without the insert
WorkerInsert_skipped(i) ==
    /\ w_pc[i] = "insert"
    /\ w_pc' = [w_pc EXCEPT ![i] = "recv"]
    /\ held' = held \cup {<<"worker", {"visited"}>>}
    /\ UNCHANGED <<w_unchanged, goal_log, iterations, free_tasks, chan_queue,
                   chan_tasks, s_sent, w_node, w_nbrs, checks, visited>>

\* worker: visited.lock().unwrap().insert(node)
WorkerInsert(i) ==
    /\ w_pc[i] = "insert"
    /\ visited' = visited \cup {w_node[i]}
    /\ w_pc' = [w_pc EXCEPT ![i] = "recv"]
    /\ held' = held \cup {<<"worker", {"visited"}>>}
    /\ UNCHANGED <<w_unchanged, goal_log, iterations, free_tasks, chan_queue,
                   chan_tasks, s_sent, w_node, w_nbrs, checks>>

\* worker: free_tasks.fetch_sub(1) after the loop
WorkerExit(i) ==
    /\ w_pc[i] = "exit"
    /\ free_tasks' = free_tasks - 1
    /\ w_pc' = [w_pc EXCEPT ![i] = "done"]
    /\ UNCHANGED <<w_unchanged, held, goal_log, visited, iterations, chan_queue,
                   chan_tasks, s_sent, w_node, w_nbrs, checks>>

\* ------------------------------------------------------ specifications
\* main.rs with the parallel flag, and the test of solver.rs that runs dfs
\* and then dfs_parallel on the same board
Init ==
    /\ graph \in ParGraphs
    /\ mode \in {"par", "test"}
    /\ main_pc = IF mode = "par" THEN "send" ELSE "dfs"
    /\ InitDfsVars
    /\ InitParVars
    /\ goal_log = {}
    /\ InitSkVars

Next ==
    \/ DfsIteration
    \/ DfsExhausted
    \/ CallerSend
    \/ CallerRecv
    \/ QueueHandler
    \/ QueueHandlerExit
    \/ DispatcherStart
    \/ DispatcherLoop
    \/ DispatcherPop
    \/ DispatcherCheck
    \/ DispatcherReport
    \/ \E i \in Workers :
          \/ WorkerRecv(i)
          \/ WorkerDisconnected(i)
          \/ WorkerCheckGoal(i)
          \/ WorkerFinish(i)
          \/ WorkerNeighbour(i)
          \/ WorkerInsert(i)
          \/ WorkerExit(i)

Spec == Init /\ [][Next]_vars

\* every thread that can take a step eventually takes one
Fairness ==
    /\ WF_vars(DfsIteration \/ DfsExhausted \/ CallerSend \/ CallerRecv)
    /\ WF_vars(QueueHandler \/ QueueHandlerExit)
    /\ WF_vars(DispatcherStart \/ DispatcherLoop \/ DispatcherPop
                \/ DispatcherCheck \/ DispatcherReport)
    /\ \A i \in Workers :
          WF_vars(WorkerRecv(i) \/ WorkerDisconnected(i) \/ WorkerCheckGoal(i)
                   \/ WorkerFinish(i) \/ WorkerNeighbour(i) \/ WorkerInsert(i)
                   \/ WorkerExit(i))

FairSpec == Spec /\ Fairness

\* main.rs without the parallel flag, over every graph
InitDfs ==
    /\ graph \in AllGraphs
    /\ mode = "seq"
    /\ main_pc = "dfs"
    /\ InitDfsVars
    /\ InitParVars
    /\ goal_log = {}
    /\ InitSkVars

NextDfs == DfsIteration \/ DfsExhausted

SpecDfs == InitDfs /\ [][NextDfs]_vars /\ WF_vars(NextDfs)

\* ------------------------------------------------------ solving a sudoku
\* Both engines hand check_goal the start node and, after that, only
\* neighbours of a node for which check_goal answered Continue; a Finish node
\* is what the engine returns.  The steps below follow one such chain of
\* nodes from the text to the answer, whichever engine runs it.

\* Sudoku::from_text on the text
SudokuFromText ==
    /\ sk_pc = "text"
    /\ LET r == from_text(sk_text)
       IN  /\ sk_pc' = IF r.type = "Ok" THEN "check"
                       ELSE IF r.type = "Err" THEN "rejected" ELSE "bad_text"
           /\ sk_node' = IF r.type = "Ok" THEN r.board ELSE sk_node
    /\ UNCHANGED <<eng_vars, sk_text>>

\* SudokuCheckGoal as it would be if the Finish arm did not return
SudokuCheckGoal_fallthrough ==
    /\ sk_pc = "check"
    /\ LET g == SudokuSolver_check_goal(sk_node)
       IN  /\ sk_node' = g.node
           /\ sk_pc' = IF g.ctrl = Prune THEN "pruned" ELSE "expand"
    /\ UNCHANGED <<eng_vars, sk_text>>

\* graph.check_goal(&mut node) and the match on its answer
SudokuCheckGoal ==
    /\ sk_pc = "check"
    /\ LET g == SudokuSolver_check_goal(sk_node)
       IN  /\ sk_node' = g.node
           /\ sk_pc' = IF g.ctrl = Finish THEN "finish"
                       ELSE IF g.ctrl = Prune THEN "pruned" ELSE "expand"
    /\ UNCHANGED <<eng_vars, sk_text>>

\* graph.neighbours(&node), and the engine taking up one of the neighbours
SudokuNeighbours ==
    /\ sk_pc = "expand"
    /\ IF neighbours_unreachable(sk_node)
       THEN sk_pc' = "panic" /\ UNCHANGED sk_node
       ELSE LET ns == SudokuSolver_neighbours(sk_node)
            IN  IF ns = <<>>
                THEN sk_pc' = "childless" /\ UNCHANGED sk_node
                ELSE \E k \in DOMAIN ns : sk_node' = ns[k] /\ sk_pc' = "check"
    /\ UNCHANGED <<eng_vars, sk_text>>

InitSudoku ==
    /\ graph = Graph3(Goal, DeadEnd, DeadEnd, TRUE)
    /\ mode = "sudoku"
    /\ main_pc = "done"
    /\ InitDfsVars
    /\ InitParVars
    /\ goal_log = {}
    /\ sk_pc = "text"
    /\ sk_text \in Texts
    /\ sk_node = Sudoku(EmptyRows, Unknown)

NextSudoku == SudokuFromText \/ SudokuCheckGoal \/ SudokuNeighbours

SpecSudoku == InitSudoku /\ [][NextSudoku]_vars /\ WF_vars(NextSudoku)

\* ---------------------------------------------------------------- claims
Range(f) == {f[i] : i \in DOMAIN f}
\* nodes that are somewhere between discovery and the end of their processing
\* in dfs_parallel
Busy(i) == w_pc[i] \in {"check", "finish", "nbr", "insert"}
Quiescent ==
    /\ chan_queue = <<>> /\ queue = <<>> /\ chan_tasks = <<>>
    /\ \A i \in Workers : ~Busy(i)
\* every result the engines have produced
Results == (Range(s_sent) \cup {dfs_result, par_result}) \ {NoResult}

\* C1: the dispatcher sends Err only when the relay channel, the frontier
\* stack and the task channel are empty and no worker is processing a node.
C1_ErrOnlyWhenQuiescent ==
    (disp_pc = "report" /\ ~Returned) => Quiescent

\* C2: on a finite graph with no reachable Finish node, under fair scheduling
\* dfs_parallel eventually sends Err and the caller's recv returns it.
C2_ParallelReportsExhaustion ==
    (mode = "par" /\ NoFinish(graph)) => <>(par_result.type = "Err")

\* C3 (as stated): on a finite graph with no reachable Finish node dfs ends
\* with an empty stack and returns Err.
C3_DfsTerminates == NoFinish(graph) => <>(dfs_result.type = "Err")

\* C3 (amended): on a finite graph with no reachable Finish node in which
\* check_goal leaves every node on a cycle unchanged, dfs ends with an empty
\* stack and returns Err carrying the number of goal checks made.
C3_DfsTerminatesKept ==
    (NoFinish(graph) /\ CyclesKept(graph))
        => <>(dfs_result = Err(Len(dfs_checked)) /\ dfs_queue = <<>>)

C3_Witness ==
    /\ NoFinish(graph) /\ CyclesKept(graph)
    /\ \E n \in Reachable(graph) : OnCycle(graph, n)
    /\ dfs_result.type = "Err" /\ dfs_result.count >= 3

\* C4: a node returned in an Ok result is one check_goal classified Finish,
\* in the form check_goal left it.
C4_OkIsFinish ==
    \A r \in Results : r.type = "Ok" => <<r.node, Finish>> \in goal_log

C4_Witness ==
    /\ graph.mutates
    /\ par_result.type = "Ok"
    /\ dfs_result.type = "Ok"
    /\ \E c \in {Continue, Prune} : \E n \in NodeVals : <<n, c>> \in goal_log

\* C5: at most one result is ever written to the result channel s.
C5_SingleResult == Len(s_sent) <= 1

\* C6: on a graph with exactly one reachable Finish node dfs and dfs_parallel
\* both return Ok with the same node.
C6_SameSolution ==
    (mode = "test" /\ UniqueFinish(graph) /\ Returned)
        => (par_result.type = "Ok" /\ dfs_result.type = "Ok"
            /\ par_result.node = dfs_result.node)

\* C7: dfs applies check_goal at most once to each distinct node.
C7_NoDoubleCheck ==
    \A i, j \in 1..Len(dfs_checked) : i # j => dfs_checked[i] # dfs_checked[j]

\* a result is written to s, or returned by dfs, in this step
NewSent == Len(s_sent') > Len(s_sent)
NewDfs == dfs_result = NoResult /\ dfs_result' # NoResult
\* workers that have counted the node they received and not yet begun its
\* check_goal
Counted == Cardinality({i \in Workers : w_pc[i] = "check"})

\* C8 (as stated): the count carried by a result equals the number of
\* check_goal calls begun before the result was produced.
C8_CountIsChecks ==
    [][/\ NewSent => s_sent'[Len(s_sent')].count = checks'
       /\ NewDfs => dfs_result'.count = Len(dfs_checked')]_vars

\* C8 (amended): the counter is incremented once per node taken up for its
\* goal check, so the count carried by a result of dfs equals the number of
\* check_goal calls begun, and the count carried by a result of dfs_parallel
\* equals that number plus the number of workers that have counted a received
\* node and not yet begun its check_goal.
C8_CountIsTaken ==
    [][/\ NewSent => s_sent'[Len(s_sent')].count = checks' + Counted'
       /\ NewDfs => dfs_result'.count = Len(dfs_checked')
       /\ iterations' = checks' + Counted'
       /\ dfs_iterations' = Len(dfs_checked')]_vars

C8_Witness ==
    /\ s_sent # <<>>
    /\ s_sent[1].type = "Ok"
    /\ s_sent[1].count = 2
    /\ checks = 1
    /\ dfs_result.type = "Ok"

\* C9: every result of dfs_parallel carries a count of at least 1, and an Ok
\* result a count of at least the depth of the node it returns.
C9_CountBounds ==
    \A r \in Range(s_sent) :
        /\ r.count >= 1
        /\ r.type = "Ok" => r.count >= Depth(graph, r.node[1])

\* C10: when check_goal on the start node yields Finish, the engine returns Ok
\* with that node and a count of exactly 1, in both execution modes.
C10_StartIsGoal ==
    check_goal(graph, start).ctrl = Finish =>
        \A r \in {dfs_result, par_result} \ {NoResult} :
            r = Ok(check_goal(graph, start).node, 1)

\* a thread has stopped once it has returned or panicked
DispatcherStopped == disp_pc = "panic"
WorkerStopped(i) == w_pc[i] \in {"done", "panic"}

\* C11: once a result has been sent, the dispatcher and every worker
\* eventually stop: none keeps polling the frontier or stays blocked on the
\* task channel forever.
C11_ThreadsStop ==
    (s_sent # <<>>) ~> (DispatcherStopped /\ \A i \in Workers : WorkerStopped(i))


\* the characters of a text at the cells of a group, blanks left out
Cell(text, ij) ==
    IF ij[1] + 1 <= Len(text) /\ ij[2] + 1 <= Len(text[ij[1] + 1])
    THEN text[ij[1] + 1][ij[2] + 1] ELSE " "
SameGroup(a, b) ==
    \/ a[1] = b[1]
    \/ a[2] = b[2]
    \/ (a[1] \div 3 = b[1] \div 3 /\ a[2] \div 3 = b[2] \div 3)
HasDuplicate(text) ==
    \E a \in Idx \X Idx : \E b \in Idx \X Idx :
        /\ a # b
        /\ SameGroup(a, b)
        /\ Cell(text, a) # " "
        /\ Cell(text, a) = Cell(text, b)

\* C12: from_text returns Err("Invalid board") for every board in which some
\* digit appears more than once in a row, a column or one of the nine 3x3
\* boxes.
C12_DuplicateRejected ==
    (sk_pc \notin {"off", "text"} /\ HasDuplicate(sk_text)) => sk_pc = "rejected"


\* a board on which every cell is a Number and no value repeats within a
\* row, a column or a 3x3 box
ValidSolution(board) ==
    /\ \A a \in Idx \X Idx : IsNumber(get(board, a[1], a[2]))
    /\ \A a \in Idx \X Idx : \A b \in Idx \X Idx :
           (a # b /\ SameGroup(a, b)) =>
               get(board, a[1], a[2]).n # get(board, b[1], b[2]).n

\* C13: a board returned as Ok by the solver, for a text from_text accepted,
\* is a valid solution.
C13_OkIsValidSolution == (sk_pc = "finish") => ValidSolution(sk_node)


\* nodes enqueued but not yet processed, plus nodes a worker is processing
Outstanding ==
    Len(chan_queue) + Len(queue) + Len(chan_tasks)
    + Cardinality({i \in Workers : Busy(i)})

\* C14: the counter the dispatcher's exhaustion test reads, free_tasks, is an
\* outstanding-work counter: every step changes it by exactly as much as it
\* changes the outstanding work, so that it equals the outstanding work in
\* every reachable state and is 0 exactly when no work exists anywhere.
C14_CounterTracksOutstanding ==
    [][free_tasks' - free_tasks = Outstanding' - Outstanding]_vars

\* C15: no thread of dfs_parallel ever holds the mutex of the frontier and the
\* mutex of the visited set at the same time.
C15_NoNestedLocks == \A h \in held : ~({"queue", "visited"} \subseteq h[2])
C15_Witness ==
    {<<"queue_handler", {"queue"}>>, <<"dispatcher", {"started", "queue"}>>,
     <<"worker", {"visited"}>>} \subseteq held


\* a worker is done with its node and ready to take the next one
WorkerTurnsToNext(i) == w_pc[i] \in {"check", "nbr", "insert"} /\ w_pc'[i] = "recv"
\* a pass of the loop of dfs that did not return
DfsTurnsToNext == dfs_iterations' # dfs_iterations /\ dfs_result' = dfs_result
Checked(n) == \E e \in goal_log : e[1] = n

\* C16: the visited set of either engine never loses an element; a node whose
\* check_goal answered Prune or Continue is in it, with all its neighbours
\* handled, when its thread turns to its next node; every member has been
\* through check_goal.
C16_VisitedInsertOnly ==
    /\ [](\A n \in visited \cup dfs_visited : Checked(n))
    /\ [][/\ visited \subseteq visited'
          /\ dfs_visited \subseteq dfs_visited'
          /\ \A i \in Workers : WorkerTurnsToNext(i) =>
                 (w_node[i] \in visited' /\ w_nbrs[i] = <<>>)
          /\ DfsTurnsToNext =>
                 check_goal(graph, dfs_queue[Len(dfs_queue)]).node \in dfs_visited'
         ]_vars
C16_Witness == visited # {} /\ dfs_visited # {} /\ \E i \in Workers : w_pc[i] = "recv"


\* C17 (as stated): on every finite graph dfs returns Err only if no node
\* reachable from the start through Continue nodes yields Finish, and returns
\* Ok whenever such a node exists.
C17_SkipKeepsOutcome ==
    /\ [](dfs_result.type = "Err" => NoFinish(graph))
    /\ ~NoFinish(graph) => <>(dfs_result.type = "Ok")

\* C17 (amended): dfs returns Err only if no reachable node yields Finish;
\* it returns Ok whenever such a node exists, provided check_goal leaves every
\* node on a cycle unchanged.
C17_SkipKeepsOutcomeKept ==
    /\ [](dfs_result.type = "Err" => NoFinish(graph))
    /\ (~NoFinish(graph) /\ CyclesKept(graph)) => <>(dfs_result.type = "Ok")

\* dfs has returned Ok after leaving out a neighbour that was in visited
C17_Witness ==
    /\ ~graph.mutates
    /\ dfs_result.type = "Ok"
    /\ \E k \in 1..Len(dfs_checked) : \E j \in 1..(k - 1) :
           dfs_checked[j] \in Successors(graph, dfs_checked[k])


\* the stack of dfs before a pass of its loop: its top and what lies below
DfsTop == dfs_queue[Len(dfs_queue)]
DfsBelow == SubSeq(dfs_queue, 1, Len(dfs_queue) - 1)
\* what a pass of the loop of dfs has put on the stack
DfsPushed == SubSeq(dfs_queue', Len(DfsBelow) + 1, Len(dfs_queue'))
\* s holds elements of ns, in the order of ns
InOrderOf(s, ns) ==
    LET Kept(n) == \E k \in DOMAIN s : s[k] = n
    IN  s = SelectSeq(ns, Kept)

\* C18: dfs works on a stack: each pass of the loop checks the node pushed
\* last, leaves everything below it in place, and pushes on top of that only
\* neighbours of the checked node, in the order neighbours() returns them; so
\* the nodes pushed for a node are checked before anything that was on the
\* stack below it.
C18_LifoOrder ==
    [][dfs_iterations' # dfs_iterations =>
          /\ Len(dfs_checked) < UsizeMod =>
                 dfs_checked' = Append(dfs_checked, DfsTop[1])
          /\ Len(dfs_queue') >= Len(DfsBelow)
          /\ SubSeq(dfs_queue', 1, Len(DfsBelow)) = DfsBelow
          /\ IF check_goal(graph, DfsTop).ctrl = Continue
             THEN InOrderOf(DfsPushed,
                            neighbours(graph, check_goal(graph, DfsTop).node))
             ELSE DfsPushed = <<>>
      ]_vars

\* the start node had two neighbours pushed, the second was checked next and
\* the first is still at the bottom of the stack
C18_Witness ==
    /\ graph.kind[start[1]].ctrl = Continue
    /\ Len(graph.kind[start[1]].nbrs) = 2
    /\ Len(dfs_checked) >= 3
    /\ dfs_checked[2] = graph.kind[start[1]].nbrs[2]
    /\ dfs_queue # <<>>
    /\ dfs_queue[1][1] = graph.kind[start[1]].nbrs[1]


\* C19: neighbours is only called on a node check_goal has just answered
\* Continue for, so SudokuSolver::neighbours is entered with state
\* HaveGuesses, never with Unknown or Solved, and its unreachable!() arm is
\* never taken.
C19_NeighboursAfterContinue ==
    /\ sk_pc # "panic"
    /\ sk_pc = "expand" => sk_node.state.tag = "HaveGuesses"

\* the engine has taken up a node that neighbours built
C19_Witness == sk_pc = "check" /\ sk_node.state.tag = "HaveGuesses"


\* how often the start node is waiting in a sequence of nodes
StartsIn(q) == Cardinality({k \in DOMAIN q : q[k][1] = start[1]})
\* units of work that are the start node: waiting in the relay channel, on
\* the frontier or in the task channel, or in the hands of a worker
StartUnits ==
    StartsIn(chan_queue) + StartsIn(queue) + StartsIn(chan_tasks)
    + Cardinality({i \in Workers : Busy(i) /\ w_node[i][1] = start[1]})
\* no node of the graph has the start node as a neighbour
StartNeverNeighbour ==
    \A n \in Nodes : \A k \in DOMAIN graph.kind[n].nbrs :
        graph.kind[n].nbrs[k] # start[1]

\* C20: dfs_parallel puts the start node into the system as one unit of work:
\* unless it is met again as a neighbour, it is never present twice.
C20_StartIsOneUnit == StartNeverNeighbour => StartUnits <= 1


\* worker threads that are not processing a node
IdleWorkers == {i \in Workers : ~Busy(i)}

\* C21: free_tasks is the number of workers not processing a node: it stays
\* within 0..cpus, and it is cpus exactly when all workers are idle.
C21_FreeTasksIsIdle ==
    /\ free_tasks \in 0..Cpus
    /\ free_tasks = Cardinality(IdleWorkers)
    /\ (free_tasks = Cpus) <=> (IdleWorkers = Workers)

====
